---------------------------- MODULE Spec2Model ----------------------------
(***************************************************************************)
(* Model of the Move trace reader of the trace-adapter                     *)
(* (external-crates/move/crates/move-analyzer/trace-adapter/src/           *)
(* trace_utils.ts): readTrace walks the raw events of a trace file once,   *)
(* keeps the stack of open frame ids, emits the canonical events and       *)
(* computes, per frame id, the end of lifetime of every local.             *)
(***************************************************************************)
EXTENDS Integers, Sequences, FiniteSets, TLC

VARIABLES
    status,              \* "start" | "running" | "returned" | "thrown"
    version,             \* traceJSON.version (never read by readTrace)
    raw,                 \* the events of traceJSON.events handled so far, in file order
    events,              \* const events: TraceEvent[]
    localLifetimeEnds,   \* Map<number, number[]>
    locaLifetimeEndsMax, \* Map<number, number[]>
    frameIDs,            \* let frameIDs = []
    suspended            \* a second invocation of readTrace, not running now:
                         \* its position and its own locals

vars == <<status, version, raw, events, localLifetimeEnds, locaLifetimeEndsMax, frameIDs,
          suspended>>

---------------------------------------------------------------------------
(* Values of the host language.                                            *)

\* FRAME_LIFETIME, imported from ./utils: the "live until the frame closes" sentinel.
FRAME_LIFETIME == -1

\* JavaScript's undefined, as an array hole, a missing Map key or a missing field.
Undefined == -2

\* Number of raw events of one trace file.
MaxEvents == 4

FrameIds == {1, 2}
Pcs == {0, 1, 2}
Slots == {0, 1}
Versions == {1, 999, Undefined}

---------------------------------------------------------------------------
(* JavaScript arrays with holes (0-based) and Maps.                        *)

Max(a, b) == IF a < b THEN b ELSE a

\* arr[i] for a 0-based index: a hole or an index past the end reads undefined.
At(arr, i) == IF i + 1 \in 1..Len(arr) THEN arr[i + 1] ELSE Undefined

\* arr[i] = v: the array grows to hold index i, the new cells in between are holes.
SetAt(arr, i, v) ==
    [j \in 1..Max(Len(arr), i + 1) |->
        IF j = i + 1 THEN v ELSE IF j <= Len(arr) THEN arr[j] ELSE Undefined]

\* map.get(key) || []   (an array, even an empty one, is truthy)
GetOrEmpty(map, key) == IF key \in DOMAIN map THEN map[key] ELSE <<>>

\* map.set(key, value)
MapSet(map, key, value) ==
    [k \in (DOMAIN map) \cup {key} |-> IF k = key THEN value ELSE map[k]]

\* frameIDs[frameIDs.length - 1]: undefined on an empty stack.
TopFrame(stack) == IF Len(stack) = 0 THEN Undefined ELSE stack[Len(stack)]

\* frameIDs.pop(): a no-op on an empty stack.
Pop(stack) == IF Len(stack) = 0 THEN stack ELSE SubSeq(stack, 1, Len(stack) - 1)

---------------------------------------------------------------------------
(* Raw trace values and their conversion.                                  *)

Num(n) == [k |-> "number", v |-> n]
Bool(b) == [k |-> "boolean", b |-> b]
Str(s) == [k |-> "string", t |-> s]
Arr(items) == [k |-> "array", items |-> items]
Null == [k |-> "null"]

\* String(value) for a scalar.
String(value) ==
    IF value.k = "number" THEN ToString(value.v)
    ELSE IF value.k = "boolean" THEN (IF value.b THEN "true" ELSE "false")
    ELSE value.t

\* A JSONTraceCompound as written in the file: fields is the sequence of the
\* members <<key, value>> of the fields object in the order of the file; an
\* absent variant_name or variant_tag is undefined.
Compound(fields, type, variant_name, variant_tag) ==
    [k |-> "compound", fields |-> fields, type |-> type,
     variant_name |-> variant_name, variant_tag |-> variant_tag]

\* The array index a property key denotes (the keys that are canonical numeric
\* strings), undefined for any other key.
ArrayIndex(key) ==
    CASE key = "0" -> 0
      [] key = "1" -> 1
      [] key = "2" -> 2
      [] key = "10" -> 10
      [] OTHER -> Undefined

\* The members at the positions in todo, by ascending array index of their keys.
RECURSIVE ByArrayIndex(_, _)
ByArrayIndex(fields, todo) ==
    IF todo = {} THEN <<>>
    ELSE LET j == CHOOSE a \in todo :
                      \A b \in todo : ArrayIndex(fields[a][1]) <= ArrayIndex(fields[b][1])
         IN  <<fields[j]>> \o ByArrayIndex(fields, todo \ {j})

\* Object.entries(fields) of the object parsed from the members: the own
\* properties in property order, array-index keys first in ascending numeric
\* order, then the other keys in the order of their creation.
ObjectEntries(fields) ==
    LET IsIndex(member) == ArrayIndex(member[1]) # Undefined
        IsName(member) == ArrayIndex(member[1]) = Undefined
    IN  ByArrayIndex(fields, {j \in 1..Len(fields) : IsIndex(fields[j])})
            \o SelectSeq(fields, IsName)

\* traceValueFromJSON returning a boolean, number or string as it is.
RECURSIVE traceValueFromJSON_NativeScalars(_)
traceValueFromJSON_NativeScalars(value) ==
    IF value.k \in {"boolean", "number", "string"}
    THEN value
    ELSE IF value.k = "array"
    THEN [k |-> "array",
          items |-> [j \in 1..Len(value.items) |->
                        traceValueFromJSON_NativeScalars(value.items[j])]]
    ELSE LET entries == ObjectEntries(value.fields)
         IN  [k |-> "compound",
              fields |-> [j \in 1..Len(entries) |->
                             <<entries[j][1], traceValueFromJSON_NativeScalars(entries[j][2])>>],
              type |-> value.type,
              variantName |-> value.variant_name,
              variantTag |-> value.variant_tag]

RECURSIVE traceValueFromJSON(_)
traceValueFromJSON(value) ==
    IF value.k \in {"boolean", "number", "string"}
    THEN [k |-> "string", s |-> String(value)]
    ELSE IF value.k = "array"
    THEN [k |-> "array",
          items |-> [j \in 1..Len(value.items) |-> traceValueFromJSON(value.items[j])]]
    ELSE LET entries == ObjectEntries(value.fields)
         IN  [k |-> "compound",
              fields |-> [j \in 1..Len(entries) |->
                             <<entries[j][1], traceValueFromJSON(entries[j][2])>>],
              type |-> value.type,
              variantName |-> value.variant_name,
              variantTag |-> value.variant_tag]

\* { type: TraceValKind.Runtime, value }
RuntimeTraceValue(value) == [type |-> "RuntimeValue", value |-> traceValueFromJSON(value)]

---------------------------------------------------------------------------
(* The raw trace (JSON schema of the trace file).                          *)

LocalLoc(f, i) == [kind |-> "Local", Local |-> <<f, i>>]
IndexedLoc(f, i, x) == [kind |-> "Indexed", Indexed |-> <<LocalLoc(f, i), x>>]
GlobalLoc == [kind |-> "Global"]

RawOpenFrame(f, params) ==
    [tag |-> "OpenFrame",
     frame |-> [frame_id |-> f,
                function_name |-> "fun",
                module |-> [address |-> "0x1", name |-> "m"],
                locals_types |-> <<[type_ |-> "u64"], [type_ |-> "bool"]>>,
                parameters |-> params]]
RawCloseFrame(f) == [tag |-> "CloseFrame", frame_id |-> f]
RawInstruction(pc) == [tag |-> "Instruction", pc |-> pc]
RawWrite(loc, v) ==
    [tag |-> "Effect", kind |-> "Write", location |-> loc, root_value_after_write |-> v]
RawRead(loc) == [tag |-> "Effect", kind |-> "Read", location |-> loc]
RawPush == [tag |-> "Effect", kind |-> "Push"]
RawPop == [tag |-> "Effect", kind |-> "Pop"]
\* An event object with none of the keys OpenFrame, CloseFrame, Instruction, Effect.
RawUnknown == [tag |-> "Unknown"]

\* The events the generated trace files are made of: frames, instructions and
\* accesses to locals.
RawEvents ==
    {RawOpenFrame(f, <<Num(42)>>) : f \in FrameIds}
    \cup {RawCloseFrame(f) : f \in FrameIds}
    \cup {RawInstruction(pc) : pc \in Pcs}
    \cup {RawWrite(LocalLoc(f, i), Num(43)) : f \in FrameIds, i \in Slots}
    \cup {RawRead(LocalLoc(f, i)) : f \in FrameIds, i \in Slots}
    \cup {RawUnknown}

\* The events of the generated trace files that exercise location resolution.
LocationEvents ==
    {RawOpenFrame(f, <<Num(42)>>) : f \in FrameIds}
    \cup {RawCloseFrame(f) : f \in FrameIds}
    \cup {RawInstruction(1)}
    \cup {RawWrite(loc, Num(43)) :
            loc \in {LocalLoc(f, 0) : f \in FrameIds}
                    \cup {IndexedLoc(f, 0, 1) : f \in FrameIds} \cup {GlobalLoc}}
    \cup {RawRead(loc) :
            loc \in {LocalLoc(1, 0)} \cup {IndexedLoc(f, 1, 0) : f \in FrameIds}
                    \cup {GlobalLoc}}
    \cup {RawPush, RawPop, RawUnknown}

---------------------------------------------------------------------------
(* processJSONLocation: the local index (or undefined) it returns and the  *)
(* lifetime map it leaves.                                                 *)

\* processJSONLocation without the lifetimeEnds[localIndex] = FRAME_LIFETIME writes.
processJSONLocation_NoMark(location, lifetimeMap, currentFrameID) ==
    [ret |-> IF location.kind = "Local" THEN location.Local[2]
             ELSE IF location.kind = "Indexed" /\ location.Indexed[1].Local[1] = currentFrameID
             THEN location.Indexed[1].Local[2]
             ELSE Undefined,
     map |-> lifetimeMap]

\* processJSONLocation resolving an Indexed location whatever its base frame.
processJSONLocation_AnyFrame(location, lifetimeMap, currentFrameID) ==
    IF location.kind \in {"Local", "Indexed"}
    THEN LET local == IF location.kind = "Local" THEN location.Local
                      ELSE location.Indexed[1].Local
         IN  [ret |-> local[2],
              map |-> MapSet(lifetimeMap, local[1],
                             SetAt(GetOrEmpty(lifetimeMap, local[1]), local[2],
                                   FRAME_LIFETIME))]
    ELSE [ret |-> Undefined, map |-> lifetimeMap]

\* processJSONLocation marking the whole row of the frame, up to the slot
\* accessed and beyond, as live.
processJSONLocation_WholeRow(location, lifetimeMap, currentFrameID) ==
    IF location.kind = "Local"
       \/ (location.kind = "Indexed" /\ location.Indexed[1].Local[1] = currentFrameID)
    THEN LET local == IF location.kind = "Local" THEN location.Local
                      ELSE location.Indexed[1].Local
             lifetimeEnds == GetOrEmpty(lifetimeMap, local[1])
         IN  [ret |-> local[2],
              map |-> MapSet(lifetimeMap, local[1],
                             [j \in 1..Max(Len(lifetimeEnds), local[2] + 1) |->
                                 FRAME_LIFETIME])]
    ELSE [ret |-> Undefined, map |-> lifetimeMap]

\* processJSONLocation marking the base local of an Indexed location as live
\* before it compares the base frame with the current frame.
processJSONLocation_MarkBeforeTest(location, lifetimeMap, currentFrameID) ==
    IF location.kind \in {"Local", "Indexed"}
    THEN LET local == IF location.kind = "Local" THEN location.Local
                      ELSE location.Indexed[1].Local
         IN  [ret |-> IF location.kind = "Local" \/ local[1] = currentFrameID
                      THEN local[2] ELSE Undefined,
              map |-> MapSet(lifetimeMap, local[1],
                             SetAt(GetOrEmpty(lifetimeMap, local[1]), local[2],
                                   FRAME_LIFETIME))]
    ELSE [ret |-> Undefined, map |-> lifetimeMap]

\* processJSONLocation taking the index applied to the base local of an
\* Indexed location, not the base local's index, as the local index.
processJSONLocation_ExtraIndex(location, lifetimeMap, currentFrameID) ==
    IF location.kind = "Local"
    THEN [ret |-> location.Local[2],
          map |-> MapSet(lifetimeMap, location.Local[1],
                         SetAt(GetOrEmpty(lifetimeMap, location.Local[1]),
                               location.Local[2], FRAME_LIFETIME))]
    ELSE IF location.kind = "Indexed" /\ location.Indexed[1].Local[1] = currentFrameID
    THEN [ret |-> location.Indexed[2],
          map |-> MapSet(lifetimeMap, currentFrameID,
                         SetAt(GetOrEmpty(lifetimeMap, currentFrameID),
                               location.Indexed[2], FRAME_LIFETIME))]
    ELSE [ret |-> Undefined, map |-> lifetimeMap]

processJSONLocation(location, lifetimeMap, currentFrameID) ==
    IF location.kind = "Local"
    THEN LET frameId == location.Local[1]
             localIndex == location.Local[2]
             lifetimeEnds == GetOrEmpty(lifetimeMap, frameId)
         IN  [ret |-> localIndex,
              map |-> MapSet(lifetimeMap, frameId,
                             SetAt(lifetimeEnds, localIndex, FRAME_LIFETIME))]
    ELSE IF location.kind = "Indexed" /\ location.Indexed[1].Local[1] = currentFrameID
    THEN LET frameId == location.Indexed[1].Local[1]
             localIndex == location.Indexed[1].Local[2]
             lifetimeEnds == GetOrEmpty(lifetimeMap, frameId)
         IN  [ret |-> localIndex,
              map |-> MapSet(lifetimeMap, frameId,
                             SetAt(lifetimeEnds, localIndex, FRAME_LIFETIME))]
    ELSE [ret |-> Undefined, map |-> lifetimeMap]

---------------------------------------------------------------------------
(* readTrace.                                                              *)

\* The locals of readTrace before the loop: events, the two maps, frameIDs.
Locals0 ==
    [events |-> <<>>,
     localLifetimeEnds |-> <<>>,
     locaLifetimeEndsMax |-> <<>>,
     frameIDs |-> <<>>]

\* The locals of readTrace as they are now.
Locals ==
    [events |-> events,
     localLifetimeEnds |-> localLifetimeEnds,
     locaLifetimeEndsMax |-> locaLifetimeEndsMax,
     frameIDs |-> frameIDs]

\* The locals of readTrace become st.
Becomes(st) ==
    /\ events' = st.events
    /\ localLifetimeEnds' = st.localLifetimeEnds
    /\ locaLifetimeEndsMax' = st.locaLifetimeEndsMax
    /\ frameIDs' = st.frameIDs

Start(versions) ==
    /\ status = "start"
    /\ version \in versions
    /\ raw = <<>>
    /\ events = Locals0.events
    /\ localLifetimeEnds = Locals0.localLifetimeEnds
    /\ locaLifetimeEndsMax = Locals0.locaLifetimeEndsMax
    /\ frameIDs = Locals0.frameIDs
    /\ suspended = [status |-> "start", raw |-> <<>>,
                    events |-> Locals0.events,
                    localLifetimeEnds |-> Locals0.localLifetimeEnds,
                    locaLifetimeEndsMax |-> Locals0.locaLifetimeEndsMax,
                    frameIDs |-> Locals0.frameIDs]

\* JSON.parse(fs.readFileSync(...)) and the start of the loop over traceJSON.events:
\* a file that is not JSON, or has no events array, throws.
Load ==
    /\ status = "start"
    /\ \E shape \in {"ok", "not_json", "no_events"} :
          status' = IF shape = "ok" THEN "running" ELSE "thrown"
    /\ UNCHANGED <<version, raw, events, localLifetimeEnds, locaLifetimeEndsMax, frameIDs, suspended>>

\* The parameter loop of the OpenFrame branch: the lifetime row after it.
RECURSIVE ParamLifetimes(_, _, _)
ParamLifetimes(parameters, i, lifetimeEnds) ==
    IF i >= Len(parameters) THEN lifetimeEnds
    ELSE ParamLifetimes(parameters, i + 1,
             IF parameters[i + 1] # Null
             THEN SetAt(lifetimeEnds, i, FRAME_LIFETIME)
             ELSE lifetimeEnds)

\* The parameter loop of the OpenFrame branch: paramValues.
RECURSIVE ParamValues(_, _)
ParamValues(parameters, i) ==
    IF i >= Len(parameters) THEN <<>>
    ELSE (IF parameters[i + 1] # Null
          THEN <<RuntimeTraceValue(parameters[i + 1])>>
          ELSE <<>>) \o ParamValues(parameters, i + 1)

\* The OpenFrame branch without lifetimeEnds[i] = FRAME_LIFETIME: the row of
\* the frame stays as it was found.
OpenFrameBranch_NoLifetimes(st, ev) ==
    LET frame == ev.frame
        localsTypes == [j \in 1..Len(frame.locals_types) |-> frame.locals_types[j].type_]
        lifetimeEnds == GetOrEmpty(st.localLifetimeEnds, frame.frame_id)
    IN  [st EXCEPT
            !.localLifetimeEnds = MapSet(@, frame.frame_id, lifetimeEnds),
            !.events = Append(@,
                [type |-> "OpenFrame",
                 id |-> frame.frame_id,
                 name |-> frame.function_name,
                 modInfo |-> [addr |-> frame.module.address, name |-> frame.module.name],
                 localsTypes |-> localsTypes,
                 paramValues |-> ParamValues(frame.parameters, 0)]),
            !.frameIDs = Append(@, frame.frame_id)]

\* The OpenFrame branch with frameIDs.unshift in place of frameIDs.push: the
\* new frame id goes to the front of frameIDs.
OpenFrameBranch_Unshift(st, ev) ==
    LET frame == ev.frame
        localsTypes == [j \in 1..Len(frame.locals_types) |-> frame.locals_types[j].type_]
        lifetimeEnds == GetOrEmpty(st.localLifetimeEnds, frame.frame_id)
    IN  [st EXCEPT
            !.localLifetimeEnds =
                MapSet(@, frame.frame_id, ParamLifetimes(frame.parameters, 0, lifetimeEnds)),
            !.events = Append(@,
                [type |-> "OpenFrame",
                 id |-> frame.frame_id,
                 name |-> frame.function_name,
                 modInfo |-> [addr |-> frame.module.address, name |-> frame.module.name],
                 localsTypes |-> localsTypes,
                 paramValues |-> ParamValues(frame.parameters, 0)]),
            !.frameIDs = <<frame.frame_id>> \o @]

\* The OpenFrame branch without localLifetimeEnds.set(frame.frame_id,
\* lifetimeEnds): a row reaches the map only through an Instruction or an
\* access.
OpenFrameBranch_NoSet(st, ev) ==
    LET frame == ev.frame
        localsTypes == [j \in 1..Len(frame.locals_types) |-> frame.locals_types[j].type_]
    IN  [st EXCEPT
            !.events = Append(@,
                [type |-> "OpenFrame",
                 id |-> frame.frame_id,
                 name |-> frame.function_name,
                 modInfo |-> [addr |-> frame.module.address, name |-> frame.module.name],
                 localsTypes |-> localsTypes,
                 paramValues |-> ParamValues(frame.parameters, 0)]),
            !.frameIDs = Append(@, frame.frame_id)]

\* if (event.OpenFrame) { ... }
OpenFrameBranch(st, ev) ==
    LET frame == ev.frame
        localsTypes == [j \in 1..Len(frame.locals_types) |-> frame.locals_types[j].type_]
        lifetimeEnds == GetOrEmpty(st.localLifetimeEnds, frame.frame_id)
    IN  [st EXCEPT
            !.localLifetimeEnds =
                MapSet(@, frame.frame_id, ParamLifetimes(frame.parameters, 0, lifetimeEnds)),
            !.events = Append(@,
                [type |-> "OpenFrame",
                 id |-> frame.frame_id,
                 name |-> frame.function_name,
                 modInfo |-> [addr |-> frame.module.address, name |-> frame.module.name],
                 localsTypes |-> localsTypes,
                 paramValues |-> ParamValues(frame.parameters, 0)]),
            !.frameIDs = Append(@, frame.frame_id)]

\* The CloseFrame branch without frameIDs.pop().
CloseFrameBranch_NoPop(st, ev) ==
    [st EXCEPT !.events = Append(@, [type |-> "CloseFrame", id |-> ev.frame_id])]

\* The CloseFrame branch ending the lifetimes of the closed frame: every slot
\* of its row that is still live gets the largest pc seen for it.
CloseFrameBranch_EndsLifetimes(st, ev) ==
    LET f == TopFrame(st.frameIDs)
        row == GetOrEmpty(st.localLifetimeEnds, f)
        max == GetOrEmpty(st.locaLifetimeEndsMax, f)
    IN  [st EXCEPT
            !.events = Append(@, [type |-> "CloseFrame", id |-> ev.frame_id]),
            !.localLifetimeEnds =
                MapSet(@, f, [j \in 1..Len(row) |->
                                 IF row[j] = FRAME_LIFETIME /\ At(max, j - 1) # Undefined
                                 THEN At(max, j - 1) ELSE row[j]]),
            !.frameIDs = Pop(@)]

\* else if (event.CloseFrame) { ... }
CloseFrameBranch(st, ev) ==
    [st EXCEPT
        !.events = Append(@, [type |-> "CloseFrame", id |-> ev.frame_id]),
        !.frameIDs = Pop(@)]

\* The slot loop without the lifetimeEndsMax[i] < pc test: the end of lifetime of
\* a live slot always becomes the pc of the instruction.
RECURSIVE InstructionLifetimes_NoMax(_, _, _, _)
InstructionLifetimes_NoMax(pc, i, lifetimeEnds, lifetimeEndsMax) ==
    IF i >= Len(lifetimeEnds) THEN [ends |-> lifetimeEnds, max |-> lifetimeEndsMax]
    ELSE IF At(lifetimeEnds, i) \in {Undefined, FRAME_LIFETIME}
         THEN InstructionLifetimes_NoMax(pc, i + 1, SetAt(lifetimeEnds, i, pc),
                                         SetAt(lifetimeEndsMax, i, pc))
         ELSE InstructionLifetimes_NoMax(pc, i + 1, lifetimeEnds, lifetimeEndsMax)

\* The slot loop with lifetimeEndsMax[i] <= pc in place of lifetimeEndsMax[i] < pc.
RECURSIVE InstructionLifetimes_NonStrict(_, _, _, _)
InstructionLifetimes_NonStrict(pc, i, lifetimeEnds, lifetimeEndsMax) ==
    IF i >= Len(lifetimeEnds) THEN [ends |-> lifetimeEnds, max |-> lifetimeEndsMax]
    ELSE IF /\ At(lifetimeEnds, i) \in {Undefined, FRAME_LIFETIME}
            /\ (At(lifetimeEndsMax, i) = Undefined \/ At(lifetimeEndsMax, i) <= pc)
         THEN InstructionLifetimes_NonStrict(pc, i + 1, SetAt(lifetimeEnds, i, pc),
                                             SetAt(lifetimeEndsMax, i, pc))
         ELSE InstructionLifetimes_NonStrict(pc, i + 1, lifetimeEnds, lifetimeEndsMax)

\* The slot loop without lifetimeEndsMax[i] = pc: the end of lifetime is set,
\* the largest pc seen is not recorded.
RECURSIVE InstructionLifetimes_EndsOnly(_, _, _, _)
InstructionLifetimes_EndsOnly(pc, i, lifetimeEnds, lifetimeEndsMax) ==
    IF i >= Len(lifetimeEnds) THEN [ends |-> lifetimeEnds, max |-> lifetimeEndsMax]
    ELSE IF /\ At(lifetimeEnds, i) \in {Undefined, FRAME_LIFETIME}
            /\ (At(lifetimeEndsMax, i) = Undefined \/ At(lifetimeEndsMax, i) < pc)
         THEN InstructionLifetimes_EndsOnly(pc, i + 1, SetAt(lifetimeEnds, i, pc),
                                            lifetimeEndsMax)
         ELSE InstructionLifetimes_EndsOnly(pc, i + 1, lifetimeEnds, lifetimeEndsMax)

\* The loop over the slots of the current frame's row, from slot i on: the rows
\* lifetimeEnds and lifetimeEndsMax after it.
RECURSIVE InstructionLifetimes(_, _, _, _)
InstructionLifetimes(pc, i, lifetimeEnds, lifetimeEndsMax) ==
    IF i >= Len(lifetimeEnds) THEN [ends |-> lifetimeEnds, max |-> lifetimeEndsMax]
    ELSE IF /\ At(lifetimeEnds, i) \in {Undefined, FRAME_LIFETIME}
            /\ (At(lifetimeEndsMax, i) = Undefined \/ At(lifetimeEndsMax, i) < pc)
         THEN InstructionLifetimes(pc, i + 1, SetAt(lifetimeEnds, i, pc),
                                   SetAt(lifetimeEndsMax, i, pc))
         ELSE InstructionLifetimes(pc, i + 1, lifetimeEnds, lifetimeEndsMax)

\* The Instruction branch without events.push.
InstructionBranch_NoEvent(st, ev) ==
    LET currentFrameID == TopFrame(st.frameIDs)
        rows == InstructionLifetimes(ev.pc, 0,
                    GetOrEmpty(st.localLifetimeEnds, currentFrameID),
                    GetOrEmpty(st.locaLifetimeEndsMax, currentFrameID))
    IN  [st EXCEPT
            !.localLifetimeEnds = MapSet(@, currentFrameID, rows.ends),
            !.locaLifetimeEndsMax = MapSet(@, currentFrameID, rows.max)]

\* The Instruction branch taking the outermost open frame, frameIDs[0], as the
\* current frame.
InstructionBranch_BottomFrame(st, ev) ==
    LET currentFrameID == IF st.frameIDs = <<>> THEN Undefined ELSE st.frameIDs[1]
        rows == InstructionLifetimes(ev.pc, 0,
                    GetOrEmpty(st.localLifetimeEnds, currentFrameID),
                    GetOrEmpty(st.locaLifetimeEndsMax, currentFrameID))
    IN  [st EXCEPT
            !.events = Append(@, [type |-> "Instruction", pc |-> ev.pc]),
            !.localLifetimeEnds = MapSet(@, currentFrameID, rows.ends),
            !.locaLifetimeEndsMax = MapSet(@, currentFrameID, rows.max)]

\* The Instruction branch running the slot loop over the rows of every frame
\* id of localLifetimeEnds, not only over the current frame's.
InstructionBranch_EveryRow(st, ev) ==
    LET rows(f) == InstructionLifetimes(ev.pc, 0,
                       GetOrEmpty(st.localLifetimeEnds, f),
                       GetOrEmpty(st.locaLifetimeEndsMax, f))
        keys == DOMAIN st.localLifetimeEnds \cup {TopFrame(st.frameIDs)}
    IN  [st EXCEPT
            !.events = Append(@, [type |-> "Instruction", pc |-> ev.pc]),
            !.localLifetimeEnds = [f \in keys |-> rows(f).ends],
            !.locaLifetimeEndsMax =
                [f \in keys \cup DOMAIN st.locaLifetimeEndsMax |-> rows(f).max]]

\* else if (event.Instruction) { ... }
InstructionBranch(st, ev) ==
    LET currentFrameID == TopFrame(st.frameIDs)
        rows == InstructionLifetimes(ev.pc, 0,
                    GetOrEmpty(st.localLifetimeEnds, currentFrameID),
                    GetOrEmpty(st.locaLifetimeEndsMax, currentFrameID))
    IN  [st EXCEPT
            !.events = Append(@, [type |-> "Instruction", pc |-> ev.pc]),
            !.localLifetimeEnds = MapSet(@, currentFrameID, rows.ends),
            !.locaLifetimeEndsMax = MapSet(@, currentFrameID, rows.max)]

\* The canonical event of a resolved Write effect.
WriteEvent(currentFrameID, localIndex, rawValue) ==
    [type |-> "Effect",
     effect |-> [type |-> "Write",
                 location |-> [type |-> "Local",
                               frameId |-> currentFrameID,
                               localIndex |-> localIndex],
                 value |-> RuntimeTraceValue(rawValue)]]

\* The Effect branch without the effect.Write test on the emitted event: a
\* resolved Read emits an event too.
EffectBranch_ReadEmits(st, ev) ==
    IF ev.kind \in {"Write", "Read"}
    THEN LET currentFrameID == TopFrame(st.frameIDs)
             res == processJSONLocation(ev.location, st.localLifetimeEnds, currentFrameID)
         IN  [st EXCEPT
                 !.localLifetimeEnds = res.map,
                 !.events =
                     IF res.ret # Undefined
                     THEN Append(@, WriteEvent(currentFrameID, res.ret,
                                               IF ev.kind = "Write"
                                               THEN ev.root_value_after_write
                                               ELSE Num(0)))
                     ELSE @]
    ELSE st

\* The Effect branch taking a Pop effect for the end of a frame: it pops
\* frameIDs.
EffectBranch_PopPopsFrame(st, ev) ==
    IF ev.kind \in {"Write", "Read"}
    THEN LET currentFrameID == TopFrame(st.frameIDs)
             res == processJSONLocation(ev.location, st.localLifetimeEnds, currentFrameID)
         IN  [st EXCEPT
                 !.localLifetimeEnds = res.map,
                 !.events =
                     IF res.ret # Undefined /\ ev.kind = "Write"
                     THEN Append(@, WriteEvent(currentFrameID, res.ret,
                                               ev.root_value_after_write))
                     ELSE @]
    ELSE IF ev.kind = "Pop" THEN [st EXCEPT !.frameIDs = Pop(@)]
    ELSE st

\* else if (event.Effect) { ... }
EffectBranch(st, ev) ==
    IF ev.kind \in {"Write", "Read"}
    THEN LET currentFrameID == TopFrame(st.frameIDs)
             res == processJSONLocation(ev.location, st.localLifetimeEnds, currentFrameID)
         IN  [st EXCEPT
                 !.localLifetimeEnds = res.map,
                 !.events =
                     IF res.ret # Undefined /\ ev.kind = "Write"
                     THEN Append(@, WriteEvent(currentFrameID, res.ret,
                                               ev.root_value_after_write))
                     ELSE @]
    ELSE st

\* The body of the loop over traceJSON.events for one event: the if / else-if
\* chain; an event with none of the four keys matches no branch.
LoopBody(st, ev) ==
    IF ev.tag = "OpenFrame" THEN OpenFrameBranch(st, ev)
    ELSE IF ev.tag = "CloseFrame" THEN CloseFrameBranch(st, ev)
    ELSE IF ev.tag = "Instruction" THEN InstructionBranch(st, ev)
    ELSE IF ev.tag = "Effect" THEN EffectBranch(st, ev)
    ELSE st

\* The locals of readTrace after the loop has run over the first n events of trace.
RECURSIVE RunLoopTo(_, _)
RunLoopTo(trace, n) ==
    IF n = 0 THEN Locals0
    ELSE LoopBody(RunLoopTo(trace, n - 1), trace[n])

\* The locals of readTrace after the loop has run over trace.
RunLoop(trace) == RunLoopTo(trace, Len(trace))

OpenFrame(ev) ==
    /\ status = "running"
    /\ ev.tag = "OpenFrame"
    /\ Becomes(OpenFrameBranch(Locals, ev))
    /\ raw' = Append(raw, ev)
    /\ UNCHANGED <<status, version, suspended>>

CloseFrame(ev) ==
    /\ status = "running"
    /\ ev.tag = "CloseFrame"
    /\ Becomes(CloseFrameBranch(Locals, ev))
    /\ raw' = Append(raw, ev)
    /\ UNCHANGED <<status, version, suspended>>

Instruction(ev) ==
    /\ status = "running"
    /\ ev.tag = "Instruction"
    /\ Becomes(InstructionBranch(Locals, ev))
    /\ raw' = Append(raw, ev)
    /\ UNCHANGED <<status, version, suspended>>

Effect(ev) ==
    /\ status = "running"
    /\ ev.tag = "Effect"
    /\ Becomes(EffectBranch(Locals, ev))
    /\ raw' = Append(raw, ev)
    /\ UNCHANGED <<status, version, suspended>>

\* The loop not moving on after an event that matches no branch: the same
\* event is the next one again.
UnknownEvent_Again(ev) ==
    /\ status = "running"
    /\ ev.tag \notin {"OpenFrame", "CloseFrame", "Instruction", "Effect"}
    /\ UNCHANGED vars

\* An event with none of the four keys matches no branch of the if/else-if chain:
\* the loop goes on to the next event.
UnknownEvent(ev) ==
    /\ status = "running"
    /\ ev.tag \notin {"OpenFrame", "CloseFrame", "Instruction", "Effect"}
    /\ raw' = Append(raw, ev)
    /\ UNCHANGED <<status, version, events, localLifetimeEnds, locaLifetimeEndsMax, frameIDs, suspended>>

\* The events are exhausted: return { events, localLifetimeEnds }.
Return ==
    /\ status = "running"
    /\ status' = "returned"
    /\ UNCHANGED <<version, raw, events, localLifetimeEnds, locaLifetimeEndsMax, frameIDs, suspended>>

\* The invocation of readTrace that is running: its position and its locals.
Invocation ==
    [status |-> status, raw |-> raw,
     events |-> events,
     localLifetimeEnds |-> localLifetimeEnds,
     locaLifetimeEndsMax |-> locaLifetimeEndsMax,
     frameIDs |-> frameIDs]

\* The switch between two invocations if frameIDs were one array of the module
\* and not a local of readTrace: the invocation resumed finds the frame stack
\* the other one left.
Switch_SharedFrameIDs ==
    /\ status' = suspended.status
    /\ raw' = suspended.raw
    /\ events' = suspended.events
    /\ localLifetimeEnds' = suspended.localLifetimeEnds
    /\ locaLifetimeEndsMax' = suspended.locaLifetimeEndsMax
    /\ frameIDs' = frameIDs
    /\ suspended' = Invocation
    /\ UNCHANGED version

\* Between two steps of the running invocation the other invocation goes on:
\* events, localLifetimeEnds, locaLifetimeEndsMax and frameIDs are locals of
\* readTrace, each invocation has its own.
Switch ==
    /\ status' = suspended.status
    /\ raw' = suspended.raw
    /\ Becomes(suspended)
    /\ suspended' = Invocation
    /\ UNCHANGED version

\* The events the file may hold next, for files of at most MaxEvents events
\* drawn from alphabet.
Feed(alphabet) == IF Len(raw) < MaxEvents THEN alphabet ELSE {}

Init == Start({1})

Next ==
    \/ Load
    \/ \E ev \in Feed(RawEvents) : OpenFrame(ev)
    \/ \E ev \in Feed(RawEvents) : CloseFrame(ev)
    \/ \E ev \in Feed(RawEvents) : Instruction(ev)
    \/ \E ev \in Feed(RawEvents) : Effect(ev)
    \/ \E ev \in Feed(RawEvents) : UnknownEvent(ev)
    \/ Return

Spec == Init /\ [][Next]_vars

NextLocations ==
    \/ Load
    \/ \E ev \in Feed(LocationEvents) : OpenFrame(ev)
    \/ \E ev \in Feed(LocationEvents) : CloseFrame(ev)
    \/ \E ev \in Feed(LocationEvents) : Instruction(ev)
    \/ \E ev \in Feed(LocationEvents) : Effect(ev)
    \/ \E ev \in Feed(LocationEvents) : UnknownEvent(ev)
    \/ Return

SpecLocations == Init /\ [][NextLocations]_vars

---------------------------------------------------------------------------
(* Trace files of the regression scenarios.                                *)

---------------------------------------------------------------------------
(* Traces that carry values of every shape.                                *)

\* The number of events of a trace of SpecValues.
MaxValueEvents == 2

StructValue ==
    Compound(<<<<"y", Num(1)>>, <<"x", Arr(<<Num(3), Num(2)>>)>>>>,
             "0x1::m::S", Undefined, Undefined)

\* Raw values: scalars of the three kinds, arrays (empty, mixed, nested),
\* a struct, an enum value holding a struct, and compounds with fields whose
\* names are numeric.
RawValues ==
    {Num(0), Num(42), Num(-7), Num(2147483647),
     Bool(TRUE), Bool(FALSE), Str("abc"), Str(""),
     Arr(<<>>),
     Arr(<<Num(42), Str("abc"), Bool(FALSE)>>),
     Arr(<<Arr(<<Num(42), Num(0)>>), Arr(<<>>)>>),
     StructValue,
     Compound(<<<<"inner", StructValue>>, <<"flag", Bool(TRUE)>>>>, "0x1::m::E", "V1", 1),
     Compound(<<<<"b", Num(42)>>, <<"0", Num(0)>>>>, "0x1::m::P", Undefined, Undefined),
     Compound(<<<<"10", Str("abc")>>, <<"2", Num(-7)>>>>, "0x1::m::Q", Undefined, Undefined)}

\* An OpenFrame with one parameter and a Write on a Local, for each raw value.
ValueEvents ==
    {RawOpenFrame(1, <<v>>) : v \in RawValues}
    \cup {RawWrite(LocalLoc(1, 0), v) : v \in RawValues}

ValueFeed == IF Len(raw) < MaxValueEvents THEN ValueEvents ELSE {}

NextValues ==
    \/ Load
    \/ \E ev \in ValueFeed : OpenFrame(ev)
    \/ \E ev \in ValueFeed : Effect(ev)
    \/ Return

SpecValues == Init /\ [][NextValues]_vars

---------------------------------------------------------------------------
(* Traces whose frames have no, one or two parameters, present or null.    *)

\* The parameters arrays of the frames: a null entry is one the test
\* if (value) of the parameter loop skips.
ParameterLists ==
    {<<>>, <<Num(42)>>, <<Num(42), Bool(TRUE)>>, <<Null, Num(42)>>, <<Num(0), Null>>}

ParameterEvents ==
    {RawOpenFrame(f, params) : f \in FrameIds, params \in ParameterLists}
    \cup {RawCloseFrame(f) : f \in FrameIds}
    \cup {RawInstruction(1), RawInstruction(2)}
    \cup {RawRead(LocalLoc(1, 1))}

NextParameters ==
    \/ Load
    \/ \E ev \in Feed(ParameterEvents) : OpenFrame(ev)
    \/ \E ev \in Feed(ParameterEvents) : CloseFrame(ev)
    \/ \E ev \in Feed(ParameterEvents) : Instruction(ev)
    \/ \E ev \in Feed(ParameterEvents) : Effect(ev)
    \/ Return

SpecParameters == Init /\ [][NextParameters]_vars

\* One pass over a loop body of instructions 10..20.
LoopPass == [j \in 1..11 |-> RawInstruction(9 + j)]

\* A frame with one local (a parameter when isParam), a loop body executed three
\* times, and one Read of the local in the second pass, after its k-th instruction.
LoopFile(isParam, k) ==
    <<RawOpenFrame(1, IF isParam THEN <<Num(42)>> ELSE <<>>)>>
    \o LoopPass
    \o SubSeq(LoopPass, 1, k) \o <<RawRead(LocalLoc(1, 0))>> \o SubSeq(LoopPass, k + 1, 11)
    \o LoopPass
    \o <<RawCloseFrame(1)>>

LoopFiles == {LoopFile(isParam, k) : isParam \in BOOLEAN, k \in 1..11}

\* OpenFrame(1, [42]), Instruction(0), Write(Local[1,0], 43), Instruction(1), CloseFrame(1)
ConcreteFile ==
    <<RawOpenFrame(1, <<Num(42)>>),
      RawInstruction(0),
      RawWrite(LocalLoc(1, 0), Num(43)),
      RawInstruction(1),
      RawCloseFrame(1)>>

\* A file with an event of no known tag between two frames.
UnknownTagFile ==
    <<RawOpenFrame(1, <<Num(42)>>), RawCloseFrame(1), RawUnknown,
      RawOpenFrame(2, <<>>), RawInstruction(0), RawCloseFrame(2)>>

Files == LoopFiles \cup {ConcreteFile, UnknownTagFile}

\* The events a file of Files may hold after the ones handled so far.
FileFeed ==
    {file[Len(raw) + 1] :
        file \in {g \in Files : Len(g) > Len(raw) /\ SubSeq(g, 1, Len(raw)) = raw}}

\* return { events, localLifetimeEnds } once the file's events are exhausted.
ReturnAtEnd == raw \in Files /\ Return

InitFiles == Start(Versions)

NextFiles ==
    \/ Load
    \/ \E ev \in FileFeed : OpenFrame(ev)
    \/ \E ev \in FileFeed : CloseFrame(ev)
    \/ \E ev \in FileFeed : Instruction(ev)
    \/ \E ev \in FileFeed : Effect(ev)
    \/ \E ev \in FileFeed : UnknownEvent(ev)
    \/ ReturnAtEnd

SpecFiles == InitFiles /\ [][NextFiles]_vars

\* The reader is sequential code: as long as it has a step to take (the next
\* event of the file, or the return after the last one) it takes one.
SpecFilesFair == SpecFiles /\ WF_vars(NextFiles)

---------------------------------------------------------------------------
(* Two invocations of readTrace, each on a file of its own, their steps    *)
(* interleaved.                                                            *)

InstanceFiles == {ConcreteFile, UnknownTagFile}

\* The events the running invocation's file may hold after the ones handled.
InstanceFeed ==
    {file[Len(raw) + 1] :
        file \in {g \in InstanceFiles : Len(g) > Len(raw) /\ SubSeq(g, 1, Len(raw)) = raw}}

ReturnOfInstance == raw \in InstanceFiles /\ Return

NextInstances ==
    \/ Load
    \/ \E ev \in InstanceFeed : OpenFrame(ev)
    \/ \E ev \in InstanceFeed : CloseFrame(ev)
    \/ \E ev \in InstanceFeed : Instruction(ev)
    \/ \E ev \in InstanceFeed : Effect(ev)
    \/ \E ev \in InstanceFeed : UnknownEvent(ev)
    \/ ReturnOfInstance
    \/ Switch

SpecInstances == Init /\ [][NextInstances]_vars

---------------------------------------------------------------------------
(* Properties.                                                             *)

Last(seq) == seq[Len(seq)]

\* The step handles one more raw event.
Handled == Len(raw') = Len(raw) + 1

\* The lifetime row of frame id f (empty when the map has no such key).
Row(f) == GetOrEmpty(localLifetimeEnds, f)

\* C1: for a frame with one local, a loop body of instructions 10..20 executed
\* three times and a Read of the local during the second pass only, the end of
\* lifetime recorded for the local when readTrace returns is at least 20.
C1_LoopEndOfLifeAtLeast20 ==
    (status = "returned" /\ raw \in LoopFiles) => At(Row(1), 0) >= 20

\* C2: on the concrete five-event file readTrace returns OpenFrame(1),
\* Instruction(0), Effect(Write, slot 0, "43"), Instruction(1), CloseFrame(1) in
\* this order, and the row of frame 1 is [FRAME_LIFETIME] right after the Write.
C2_ConcreteScenario ==
    /\ (status = "returned" /\ raw = ConcreteFile) =>
          /\ Len(events) = 5
          /\ events[1].type = "OpenFrame" /\ events[1].id = 1
          /\ events[2] = [type |-> "Instruction", pc |-> 0]
          /\ events[3].type = "Effect"
          /\ events[3].effect.type = "Write"
          /\ events[3].effect.location.type = "Local"
          /\ events[3].effect.location.localIndex = 0
          /\ events[3].effect.value.value = [k |-> "string", s |-> "43"]
          /\ events[4] = [type |-> "Instruction", pc |-> 1]
          /\ events[5] = [type |-> "CloseFrame", id |-> 1]
    /\ raw = SubSeq(ConcreteFile, 1, 3) => Row(1) = <<FRAME_LIFETIME>>

C2_Witness == status = "returned" /\ raw = ConcreteFile

\* C3: a CloseFrame whose frame id is not the id on top of the open-frame stack
\* is detected and is fatal: readTrace throws when it handles the event.
C3_MismatchedCloseIsFatal ==
    [][(/\ status = "running"
        /\ Handled
        /\ Last(raw').tag = "CloseFrame"
        /\ frameIDs # <<>>
        /\ Last(raw').frame_id # TopFrame(frameIDs)) => status' = "thrown"]_vars

\* C4: an event with none of the four known tags is fatal: readTrace throws when
\* it handles the event, and does not skip it.
C4_UnknownTagIsFatal ==
    [][(/\ status = "running"
        /\ Handled
        /\ Last(raw').tag \notin {"OpenFrame", "Instruction", "Effect", "CloseFrame"})
       => status' = "thrown"]_vars

\* C5: with a missing or unsupported version readTrace fails before any event
\* is handled and returns nothing.
C5_UnsupportedVersionIsFatal ==
    version \in {999, Undefined} => (raw = <<>> /\ status # "returned")

---------------------------------------------------------------------------
(* The data model's view of a raw trace.                                   *)

IsAccess(ev) == ev.tag = "Effect" /\ ev.kind \in {"Write", "Read"}

\* The frame id a raw location names (undefined for a location of unknown kind).
LocationFrame(loc) ==
    IF loc.kind = "Local" THEN loc.Local[1]
    ELSE IF loc.kind = "Indexed" THEN loc.Indexed[1].Local[1]
    ELSE Undefined

\* The ids of the frames open after the first n events of trace, outermost first.
RECURSIVE OpenFramesAfter(_, _)
OpenFramesAfter(trace, n) ==
    IF n = 0 THEN <<>>
    ELSE LET before == OpenFramesAfter(trace, n - 1)
         IN  IF trace[n].tag = "OpenFrame" THEN Append(before, trace[n].frame.frame_id)
             ELSE IF trace[n].tag = "CloseFrame" /\ before # <<>>
                  THEN SubSeq(before, 1, Len(before) - 1)
                  ELSE before

Range(seq) == {seq[j] : j \in 1..Len(seq)}

\* The invariants of the data model on a trace (or on the part of it read so far):
\* no two open frames share an id, a CloseFrame closes the innermost open frame,
\* a Read or Write names a local of an open frame.
WellFormed(trace) ==
    \A n \in 1..Len(trace) :
        LET before == OpenFramesAfter(trace, n - 1)
            ev == trace[n]
        IN  /\ ev.tag = "OpenFrame" => ev.frame.frame_id \notin Range(before)
            /\ ev.tag = "CloseFrame" => before # <<>> /\ Last(before) = ev.frame_id
            /\ IsAccess(ev) => LocationFrame(ev.location) \in Range(before)

\* A valid trace: well-formed, and every frame opened is closed.
Valid(trace) == WellFormed(trace) /\ OpenFramesAfter(trace, Len(trace)) = <<>>

\* The frames of the trace read so far that were opened and are closed now.
ClosedFrames ==
    {f \in FrameIds :
        /\ f \notin Range(OpenFramesAfter(raw, Len(raw)))
        /\ \E n \in 1..Len(raw) : raw[n].tag = "CloseFrame" /\ raw[n].frame_id = f}

\* C6: once the CloseFrame of frame f is processed, no later event of a
\* well-formed trace modifies the lifetime row of f.
C6_ClosedRowNeverModified ==
    [][(Handled /\ WellFormed(raw')) =>
          \A f \in ClosedFrames :
              GetOrEmpty(localLifetimeEnds', f) = GetOrEmpty(localLifetimeEnds, f)]_vars

\* The concrete end-of-life values slot i of frame f has held so far.
HeldConcrete(f, i) ==
    {At(GetOrEmpty(RunLoopTo(raw, n).localLifetimeEnds, f), i) : n \in 0..Len(raw)} \cap Nat

\* C7: a slot's end of life only ever changes to FRAME_LIFETIME or to a pc that
\* is not smaller than any concrete value the slot held before.
C7_ConcreteEndsNeverDecrease ==
    [][\A f \in DOMAIN localLifetimeEnds' :
          \A i \in 0..(Len(localLifetimeEnds'[f]) - 1) :
              LET old == At(Row(f), i)
                  new == At(localLifetimeEnds'[f], i)
              IN  new # old =>
                     \/ new = FRAME_LIFETIME
                     \/ new \in Nat /\ \A v \in HeldConcrete(f, i) : new >= v]_vars

\* A slot holds a concrete end of life larger than one it held before.
C7_Witness ==
    \E f \in DOMAIN localLifetimeEnds :
        \E i \in 0..(Len(localLifetimeEnds[f]) - 1) :
            /\ At(Row(f), i) \in Nat
            /\ \E v \in HeldConcrete(f, i) : v < At(Row(f), i)

\* C8: the Write event emitted for an effect on Local[f, i], f an open frame,
\* has frameId f and localIndex i.
C8_WriteLocationIsRawLocation ==
    [][(/\ Handled
        /\ Last(raw').tag = "Effect"
        /\ Last(raw').kind = "Write"
        /\ Last(raw').location.kind = "Local"
        /\ Last(raw').location.Local[1] \in Range(frameIDs))
       => /\ Len(events') = Len(events) + 1
          /\ Last(events').type = "Effect"
          /\ Last(events').effect.location.frameId = Last(raw').location.Local[1]
          /\ Last(events').effect.location.localIndex = Last(raw').location.Local[2]]_vars

\* The number of events of evs that satisfy Test.
Count(evs, Test(_)) == Cardinality({j \in 1..Len(evs) : Test(evs[j])})

IsOpenEvent(e) == e.type = "OpenFrame"
IsCloseEvent(e) == e.type = "CloseFrame"
IsWriteEvent(e) == e.type = "Effect" /\ e.effect.type = "Write"

\* The OpenFrame and CloseFrame events among the first n events of evs nest as a
\* stack: the ids left open, outermost first, or <<Undefined>> when they do not.
RECURSIVE NestingAfter(_, _)
NestingAfter(evs, n) ==
    IF n = 0 THEN <<>>
    ELSE LET before == NestingAfter(evs, n - 1)
         IN  IF before = <<Undefined>> THEN before
             ELSE IF evs[n].type = "OpenFrame" THEN Append(before, evs[n].id)
             ELSE IF evs[n].type = "CloseFrame"
                  THEN IF before # <<>> /\ Last(before) = evs[n].id
                       THEN SubSeq(before, 1, Len(before) - 1)
                       ELSE <<Undefined>>
                  ELSE before

\* C9: for a valid trace the returned events hold as many OpenFrame as CloseFrame
\* events, these nest as a stack, and the open-frame stack is empty at the end.
C9_ValidTraceBalanced ==
    (status = "returned" /\ Valid(raw)) =>
        /\ Count(events, IsOpenEvent) = Count(events, IsCloseEvent)
        /\ Count(events, IsOpenEvent) = Count(raw, LAMBDA ev : ev.tag = "OpenFrame")
        /\ NestingAfter(events, Len(events)) = <<>>
        /\ frameIDs = <<>>

\* A valid trace with a nested call has been read to its end.
C9_Witness ==
    /\ status = "returned"
    /\ Valid(raw)
    /\ \E n \in 1..Len(raw) : Len(OpenFramesAfter(raw, n)) = 2

IsEffect(ev) == ev.tag = "Effect"

\* The n-th event of trace is an effect on an Indexed location whose base frame
\* is not the topmost open frame when the event is handled.
IndexedOffTop(trace, n) ==
    /\ IsAccess(trace[n])
    /\ trace[n].location.kind = "Indexed"
    /\ LocationFrame(trace[n].location) # TopFrame(OpenFramesAfter(trace, n - 1))

AllEffectsAreWrites(trace) ==
    \A n \in 1..Len(trace) : IsEffect(trace[n]) => trace[n].kind = "Write"

OneIndexedOffTop(trace) ==
    Cardinality({n \in 1..Len(trace) : IndexedOffTop(trace, n)}) = 1

\* C10 as stated: a trace whose effects are all Writes, exactly one of them on
\* an Indexed location off the topmost frame, is read without error and yields
\* (number of effects - 1) Write events.
C10_OneFewerWrite ==
    (raw # <<>> /\ AllEffectsAreWrites(raw) /\ OneIndexedOffTop(raw)) =>
        /\ status \in {"running", "returned"}
        /\ Count(events, IsWriteEvent) = Count(raw, IsEffect) - 1

\* C10, amended: the same when every Write is on a Local or an Indexed location.
C10_OneFewerWriteOfResolvable ==
    (/\ raw # <<>>
     /\ AllEffectsAreWrites(raw)
     /\ OneIndexedOffTop(raw)
     /\ \A n \in 1..Len(raw) :
            IsEffect(raw[n]) => raw[n].location.kind \in {"Local", "Indexed"}) =>
        /\ status \in {"running", "returned"}
        /\ Count(events, IsWriteEvent) = Count(raw, IsEffect) - 1

\* A trace with several Writes, one of them on an Indexed location off the
\* topmost frame, has been read to its end.
C10_Witness ==
    /\ status = "returned"
    /\ AllEffectsAreWrites(raw)
    /\ OneIndexedOffTop(raw)
    /\ \A n \in 1..Len(raw) :
           IsEffect(raw[n]) => raw[n].location.kind \in {"Local", "Indexed"}
    /\ Count(raw, IsEffect) >= 3
    /\ Count(events, IsWriteEvent) = 2

---------------------------------------------------------------------------
(* Event normalisation.                                                    *)

\* The data model's resolution of a raw location with frame top topmost: a
\* Local resolves, an Indexed location resolves when its base local is in top.
Resolvable(loc, top) ==
    \/ loc.kind = "Local"
    \/ loc.kind = "Indexed" /\ loc.Indexed[1].Local[1] = top

\* The slot a resolvable raw location names.
SlotOf(loc) ==
    IF loc.kind = "Local" THEN loc.Local[2] ELSE loc.Indexed[1].Local[2]

\* C11: a Write effect whose location resolves appends exactly one Effect/Write
\* event carrying the decoded root_value_after_write (the number 43 as the
\* string "43"); a Read, and an effect whose location does not resolve, append
\* no event.
C11_WriteYieldsOneEventReadNone ==
    [][(Handled /\ Last(raw').tag = "Effect") =>
          LET ev == Last(raw')
          IN  IF /\ ev.kind = "Write"
                 /\ Resolvable(ev.location, TopFrame(frameIDs))
              THEN /\ Len(events') = Len(events) + 1
                   /\ SubSeq(events', 1, Len(events)) = events
                   /\ Last(events').type = "Effect"
                   /\ Last(events').effect.type = "Write"
                   /\ Last(events').effect.location.localIndex = SlotOf(ev.location)
                   /\ ev.root_value_after_write = Num(43)
                   /\ Last(events').effect.value =
                          [type |-> "RuntimeValue", value |-> [k |-> "string", s |-> "43"]]
              ELSE events' = events]_vars

\* A Write on an Indexed location of the topmost frame has produced the last
\* event, and a Read processed before it produced none.
C11_Witness ==
    /\ Len(raw) >= 3
    /\ Last(raw).tag = "Effect"
    /\ Last(raw).kind = "Write"
    /\ Last(raw).location.kind = "Indexed"
    /\ raw[Len(raw) - 1].tag = "Effect"
    /\ raw[Len(raw) - 1].kind = "Read"
    /\ Len(events) = Len(raw) - 1
    /\ Last(events).type = "Effect"

\* What identifies a canonical event: its kind with its frame id, its pc, or the
\* slot written.
Signature(event) ==
    IF event.type = "OpenFrame" THEN <<"OpenFrame", event.id>>
    ELSE IF event.type = "CloseFrame" THEN <<"CloseFrame", event.id>>
    ELSE IF event.type = "Instruction" THEN <<"Instruction", event.pc>>
    ELSE <<event.effect.type, event.effect.location.localIndex>>

\* The raw events of the first n of trace that the data model keeps, in file
\* order, as signatures: OpenFrame, CloseFrame, Instruction and the Writes that
\* resolve; Read, Push, Pop and unresolved effects are removed.
RECURSIVE Kept(_, _)
Kept(trace, n) ==
    IF n = 0 THEN <<>>
    ELSE LET ev == trace[n]
             top == TopFrame(OpenFramesAfter(trace, n - 1))
         IN  Kept(trace, n - 1) \o
                (IF ev.tag = "OpenFrame" THEN <<<<"OpenFrame", ev.frame.frame_id>>>>
                 ELSE IF ev.tag = "CloseFrame" THEN <<<<"CloseFrame", ev.frame_id>>>>
                 ELSE IF ev.tag = "Instruction" THEN <<<<"Instruction", ev.pc>>>>
                 ELSE IF /\ ev.tag = "Effect"
                         /\ ev.kind = "Write"
                         /\ Resolvable(ev.location, top)
                      THEN <<<<"Write", SlotOf(ev.location)>>>>
                      ELSE <<>>)

\* C12: events is the raw sequence read so far with Read, Push, Pop and
\* unresolved effects removed: one canonical event of the same kind, with the
\* same frame id or pc, per kept raw event, in the same order.
C12_EventsPreserveFileOrder ==
    [j \in 1..Len(events) |-> Signature(events[j])] = Kept(raw, Len(raw))

\* The reader has returned a file in which an Instruction, a dropped effect and
\* a resolved Write occur in this order.
C12_Witness ==
    /\ status = "returned"
    /\ Len(raw) = 4
    /\ raw[2].tag = "Instruction"
    /\ raw[3].tag = "Effect"
    /\ raw[4].tag = "Effect"
    /\ Len(events) = 3
    /\ events[3].type = "Effect"

---------------------------------------------------------------------------
(* Lifetime analysis.                                                      *)

\* The positions in trace of the Read and Write effects that resolve to slot i
\* of frame f.
Accesses(trace, f, i) ==
    {n \in 1..Len(trace) :
        /\ IsAccess(trace[n])
        /\ Resolvable(trace[n].location, TopFrame(OpenFramesAfter(trace, n - 1)))
        /\ LocationFrame(trace[n].location) = f
        /\ SlotOf(trace[n].location) = i}

\* The positions in trace of the Instructions with pc processed with frame f
\* topmost.
InstructionsOf(trace, f, pc) ==
    {n \in 1..Len(trace) :
        /\ trace[n].tag = "Instruction"
        /\ trace[n].pc = pc
        /\ TopFrame(OpenFramesAfter(trace, n - 1)) = f}

\* C13: when the reader has finished, a concrete end of life of a slot that
\* was read or written is the pc of an Instruction processed with the slot's
\* frame topmost, after the last Read or Write of the slot.
C13_ConcreteEndFollowsLastAccess ==
    status = "returned" =>
        \A f \in FrameIds : \A i \in Slots :
            (Accesses(raw, f, i) # {} /\ At(Row(f), i) \in Nat) =>
                \E n \in InstructionsOf(raw, f, At(Row(f), i)) :
                    \A a \in Accesses(raw, f, i) : a < n

\* The reader has finished; a slot was accessed after an Instruction of its
\* frame and holds the larger pc of an Instruction that followed the access.
C13_Witness ==
    /\ status = "returned"
    /\ \E f \in FrameIds : \E i \in Slots :
          /\ At(Row(f), i) \in Nat
          /\ \E a \in Accesses(raw, f, i) : \E pc \in Pcs :
                /\ pc < At(Row(f), i)
                /\ \E n \in InstructionsOf(raw, f, pc) : n < a

\* The row of frame f in locaLifetimeEndsMax.
MaxRow(f) == GetOrEmpty(locaLifetimeEndsMax, f)

\* C20: the Instruction with pc, processed with frame f topmost, treats every
\* slot of f's row as follows. A slot whose end of life is unset or
\* FRAME_LIFETIME gets end of life and largest pc seen both equal to pc when pc
\* exceeds the largest pc seen (or none is recorded), and keeps both when pc is
\* at most the largest pc seen; a slot with a concrete end of life keeps both.
C20_InstructionUpdatesLiveSlots ==
    [][(Handled /\ Last(raw').tag = "Instruction") =>
          LET pc == Last(raw').pc
              f == TopFrame(frameIDs)
          IN  \A i \in 0..(Len(Row(f)) - 1) :
                  LET end == At(Row(f), i)
                      max == At(MaxRow(f), i)
                      end2 == At(GetOrEmpty(localLifetimeEnds', f), i)
                      max2 == At(GetOrEmpty(locaLifetimeEndsMax', f), i)
                  IN  IF end \in {Undefined, FRAME_LIFETIME}
                      THEN IF max = Undefined \/ pc > max
                           THEN end2 = pc /\ max2 = pc
                           ELSE end2 = end /\ max2 = max
                      ELSE end2 = end /\ max2 = max]_vars

\* An Instruction was the last event processed and left a slot of the topmost
\* frame at FRAME_LIFETIME, its pc being the largest pc seen for the slot.
C20_Witness ==
    /\ raw # <<>>
    /\ Last(raw).tag = "Instruction"
    /\ frameIDs # <<>>
    /\ \E i \in 0..(Len(Row(TopFrame(frameIDs))) - 1) :
          /\ At(Row(TopFrame(frameIDs)), i) = FRAME_LIFETIME
          /\ At(MaxRow(TopFrame(frameIDs)), i) = Last(raw).pc

---------------------------------------------------------------------------
(* Recoverable conditions.                                                 *)

\* The step has processed a Read or Write whose location does not resolve.
DroppedEffect ==
    /\ Handled
    /\ frameIDs # <<>>
    /\ IsAccess(Last(raw'))
    /\ ~Resolvable(Last(raw').location, TopFrame(frameIDs))

\* C19: every dropped effect is recorded: processing a Read or Write whose
\* location does not resolve changes what readTrace holds (events, the two
\* lifetime maps, the frame stack), so that the number of dropped effects can
\* be reported when the reader finishes.
C19_DroppedEffectIsRecorded ==
    [][DroppedEffect => Locals' # Locals]_vars

---------------------------------------------------------------------------
(* Value decoding.                                                         *)

\* The raw value an OpenFrame with one parameter, or a Write, carries.
RawValueOf(ev) ==
    IF ev.tag = "OpenFrame" THEN ev.frame.parameters[1] ELSE ev.root_value_after_write

\* The runtime value the canonical event of such a raw event carries.
DecodedOf(event) ==
    IF event.type = "OpenFrame" THEN event.paramValues[1].value
    ELSE event.effect.value.value

\* decoded has the structure and the order of node: an array is a sequence of
\* the same length, element by element; a compound has the fields of node under
\* the same names in the same order, and the type, variant name and variant tag
\* of node; recursively.
RECURSIVE PreservesStructure(_, _)
PreservesStructure(node, decoded) ==
    IF node.k = "array"
    THEN /\ decoded.k = "array"
         /\ Len(decoded.items) = Len(node.items)
         /\ \A j \in 1..Len(node.items) : PreservesStructure(node.items[j], decoded.items[j])
    ELSE IF node.k = "compound"
    THEN /\ decoded.k = "compound"
         /\ Len(decoded.fields) = Len(node.fields)
         /\ \A j \in 1..Len(node.fields) :
               /\ decoded.fields[j][1] = node.fields[j][1]
               /\ PreservesStructure(node.fields[j][2], decoded.fields[j][2])
         /\ decoded.type = node.type
         /\ decoded.variantName = node.variant_name
         /\ decoded.variantTag = node.variant_tag
    ELSE decoded.k = "string"

\* C16: the value of every canonical event has the structure and the order of
\* the raw value it was decoded from: arrays element by element, compound
\* fields in the declared order with type, variant_name and variant_tag copied,
\* at every depth.
C16_DecodingPreservesOrder ==
    \A j \in 1..Len(events) : PreservesStructure(RawValueOf(raw[j]), DecodedOf(events[j]))

\* The text of the scalar raw values of RawValues.
Text(node) ==
    CASE node = Num(0) -> "0"
      [] node = Num(1) -> "1"
      [] node = Num(2) -> "2"
      [] node = Num(3) -> "3"
      [] node = Num(42) -> "42"
      [] node = Num(-7) -> "-7"
      [] node = Num(2147483647) -> "2147483647"
      [] node = Bool(TRUE) -> "true"
      [] node = Bool(FALSE) -> "false"
      [] node = Str("abc") -> "abc"
      [] node = Str("") -> ""

\* Every scalar of node is, at its place in decoded, its text.
RECURSIVE ScalarsAreText(_, _)
ScalarsAreText(node, decoded) ==
    IF node.k = "array"
    THEN \A j \in 1..Len(node.items) : ScalarsAreText(node.items[j], decoded.items[j])
    ELSE IF node.k = "compound"
    THEN \A j \in 1..Len(node.fields) :
             \E n \in 1..Len(decoded.fields) :
                 /\ decoded.fields[n][1] = node.fields[j][1]
                 /\ ScalarsAreText(node.fields[j][2], decoded.fields[n][2])
    ELSE decoded = [k |-> "string", s |-> Text(node)]

\* C17: every boolean, number and string of a parameter or written value, at
\* any depth, appears in the canonical event as its text String(raw), never
\* as a number or a boolean.
C17_ScalarsDecodeToText ==
    \A j \in 1..Len(events) : ScalarsAreText(RawValueOf(raw[j]), DecodedOf(events[j]))

\* The reader has returned a frame opened with a negative number as parameter
\* and a Write of an array that holds a number, a string and a boolean.
C17_Witness ==
    /\ status = "returned"
    /\ Len(events) = 2
    /\ DecodedOf(events[1]) = [k |-> "string", s |-> "-7"]
    /\ DecodedOf(events[2]).k = "array"
    /\ Len(DecodedOf(events[2]).items) = 3
    /\ DecodedOf(events[2]).items[3] = [k |-> "string", s |-> "false"]

---------------------------------------------------------------------------
(* Independent invocations.                                                *)

\* The locals of the invocation that is not running.
SuspendedLocals ==
    [events |-> suspended.events,
     localLifetimeEnds |-> suspended.localLifetimeEnds,
     locaLifetimeEndsMax |-> suspended.locaLifetimeEndsMax,
     frameIDs |-> suspended.frameIDs]

\* C15: with the steps of two invocations interleaved in any order, each
\* invocation holds the events and the lifetime table (and the frame stack)
\* that readTrace alone computes over the events it has handled.
C15_InstancesIndependent ==
    /\ Locals = RunLoop(raw)
    /\ SuspendedLocals = RunLoop(suspended.raw)

\* Both invocations are in the middle of their files, one inside frame 1 of
\* the one file and the other inside frame 2 of the other file.
C15_Witness ==
    /\ status = "running"
    /\ suspended.status = "running"
    /\ raw = SubSeq(ConcreteFile, 1, 3)
    /\ suspended.raw = SubSeq(UnknownTagFile, 1, 5)
    /\ frameIDs = <<1>>
    /\ suspended.frameIDs = <<2>>

\* The position in trace of the most recent Read or Write of slot i of frame f
\* or, if the slot was never accessed, of the most recent OpenFrame of f (0 if
\* there is none).
LiveSince(trace, f, i) ==
    IF Accesses(trace, f, i) # {}
    THEN CHOOSE a \in Accesses(trace, f, i) : \A b \in Accesses(trace, f, i) : b <= a
    ELSE LET opens == {n \in 1..Len(trace) :
                          trace[n].tag = "OpenFrame" /\ trace[n].frame.frame_id = f}
         IN  IF opens = {} THEN 0
             ELSE CHOOSE a \in opens : \A b \in opens : b <= a

\* The pcs of the Instructions of trace after position n processed with frame f
\* topmost.
PcsSince(trace, f, n) ==
    {pc \in Pcs : \E m \in InstructionsOf(trace, f, pc) : m > n}

\* C21: a concrete end of life of a slot is the highest pc of the Instructions
\* processed with the slot's frame topmost since the most recent Read or Write
\* of the slot (since the frame was opened, if the slot was never accessed).
C21_ConcreteEndIsHighestPc ==
    \A f \in FrameIds : \A i \in Slots :
        At(Row(f), i) \in Nat =>
            LET since == PcsSince(raw, f, LiveSince(raw, f, i))
            IN  /\ At(Row(f), i) \in since
                /\ \A pc \in since : pc <= At(Row(f), i)

\* The step has processed a Read or Write whose location resolves.
ResolvedAccess ==
    /\ Handled
    /\ IsAccess(Last(raw'))
    /\ Resolvable(Last(raw').location, TopFrame(frameIDs))

\* The keys a lifetime map may have: the frame ids and undefined.
RowKeys == FrameIds \cup {Undefined}

\* C22: a Read or Write that resolves to slot s of frame f sets the end of life
\* of that slot to FRAME_LIFETIME, changes no other end of life, and changes
\* the largest pc seen of no frame and no slot.
C22_AccessResetsOnlyItsSlot ==
    [][ResolvedAccess =>
          LET f == LocationFrame(Last(raw').location)
              s == SlotOf(Last(raw').location)
          IN  /\ At(GetOrEmpty(localLifetimeEnds', f), s) = FRAME_LIFETIME
              /\ \A g \in RowKeys : \A j \in Slots :
                    /\ <<g, j>> # <<f, s>> =>
                          At(GetOrEmpty(localLifetimeEnds', g), j) = At(Row(g), j)
                    /\ At(GetOrEmpty(locaLifetimeEndsMax', g), j) = At(MaxRow(g), j)
              /\ \A g \in RowKeys :
                    /\ Len(GetOrEmpty(localLifetimeEnds', g)) <= Max(Len(Row(g)), s + 1)
                    /\ Len(GetOrEmpty(locaLifetimeEndsMax', g)) = Len(MaxRow(g))]_vars

\* A Read or Write of slot 1 of a frame was the last event processed; slot 0 of
\* the frame holds a concrete end of life and slot 1 is live.
C22_Witness ==
    /\ raw # <<>>
    /\ IsAccess(Last(raw))
    /\ SlotOf(Last(raw).location) = 1
    /\ At(Row(LocationFrame(Last(raw).location)), 0) \in Nat
    /\ At(Row(LocationFrame(Last(raw).location)), 1) = FRAME_LIFETIME
    /\ At(MaxRow(LocationFrame(Last(raw).location)), 0) \in Nat

---------------------------------------------------------------------------
(* Frames.                                                                 *)

\* What an OpenFrame step has to do for the frame of the raw event ev: one
\* OpenFrame event appended, with the declared type names and the decoded
\* parameters in order; the frame id pushed; FRAME_LIFETIME at every
\* parameter slot of the frame's row.
OpensFrame(ev) ==
    LET frame == ev.frame
        opened == Last(events')
    IN  /\ Len(events') = Len(events) + 1
        /\ SubSeq(events', 1, Len(events)) = events
        /\ opened.type = "OpenFrame"
        /\ opened.id = frame.frame_id
        /\ opened.localsTypes = <<"u64", "bool">>
        /\ Len(opened.paramValues) = Len(frame.parameters)
        /\ \A j \in 1..Len(frame.parameters) :
              opened.paramValues[j] =
                  [type |-> "RuntimeValue",
                   value |-> [k |-> "string", s |-> Text(frame.parameters[j])]]
        /\ frameIDs' = Append(frameIDs, frame.frame_id)
        /\ \A i \in 0..(Len(frame.parameters) - 1) :
              At(GetOrEmpty(localLifetimeEnds', frame.frame_id), i) = FRAME_LIFETIME

\* C23: an OpenFrame event emits one OpenFrame event with the declared local
\* type names and the decoded parameters in order, pushes the frame id and
\* leaves FRAME_LIFETIME at every parameter slot of the frame's row.
C23_OpenFrameEmitsAndInitialises ==
    [][(Handled /\ Last(raw').tag = "OpenFrame") => OpensFrame(Last(raw'))]_vars

\* C23, for frames whose parameters are all present: the same; a null entry of
\* parameters is outside it.
C23_OpenFrameWithPresentParameters ==
    [][(/\ Handled
        /\ Last(raw').tag = "OpenFrame"
        /\ \A j \in 1..Len(Last(raw').frame.parameters) :
              Last(raw').frame.parameters[j] # Null)
       => OpensFrame(Last(raw'))]_vars

\* A frame with two parameters, both present, was opened last, under an id
\* whose row held a concrete end of life from an earlier frame.
C23_Witness ==
    /\ raw # <<>>
    /\ Last(raw).tag = "OpenFrame"
    /\ Len(Last(raw).frame.parameters) = 2
    /\ Null \notin Range(Last(raw).frame.parameters)
    /\ At(GetOrEmpty(RunLoopTo(raw, Len(raw) - 1).localLifetimeEnds,
                     Last(raw).frame.frame_id), 0) \in Nat
    /\ Row(Last(raw).frame.frame_id) = <<FRAME_LIFETIME, FRAME_LIFETIME>>

\* C24: an Instruction changes end-of-life and largest-pc entries in the row of
\* the topmost open frame only: the rows of every other frame, enclosing or
\* closed, are unchanged, so a live local of a caller is still FRAME_LIFETIME
\* after an Instruction of a nested call.
C24_InstructionTouchesTopRowOnly ==
    [][(Handled /\ Last(raw').tag = "Instruction") =>
          \A g \in RowKeys \ {TopFrame(frameIDs)} :
              /\ GetOrEmpty(localLifetimeEnds', g) = Row(g)
              /\ GetOrEmpty(locaLifetimeEndsMax', g) = MaxRow(g)
              /\ \A i \in Slots :
                    (g \in Range(frameIDs) /\ At(Row(g), i) = FRAME_LIFETIME) =>
                        At(GetOrEmpty(localLifetimeEnds', g), i) = FRAME_LIFETIME]_vars

\* An Instruction of a nested call was processed last: the callee's slot holds
\* its pc, the caller's slot is still FRAME_LIFETIME.
C24_Witness ==
    /\ Len(frameIDs) = 2
    /\ frameIDs[1] # frameIDs[2]
    /\ Last(raw).tag = "Instruction"
    /\ At(Row(frameIDs[1]), 0) = FRAME_LIFETIME
    /\ At(Row(frameIDs[2]), 0) = Last(raw).pc

\* C25: an effect with an Indexed location whose base frame is not the topmost
\* open frame, or with a location of unknown kind, changes nothing: events, the
\* frame stack and every row of both lifetime maps are as before, and the
\* reader goes on with the next event.
C25_UnresolvedEffectChangesNothing ==
    [][(/\ Handled
        /\ IsAccess(Last(raw'))
        /\ ~Resolvable(Last(raw').location, TopFrame(frameIDs)))
       => /\ Locals' = Locals
          /\ status' = "running"]_vars

\* With frame 2 inside frame 1, a Write on an Indexed location of frame 1 was
\* processed last and frame 1's slot still holds its concrete end of life.
C25_Witness ==
    /\ frameIDs = <<1, 2>>
    /\ Last(raw).tag = "Effect"
    /\ Last(raw).kind = "Write"
    /\ Last(raw).location = IndexedLoc(1, 0, 1)
    /\ At(Row(1), 0) \in Nat
    /\ Len(events) = Len(raw) - 1

\* C26: an effect with an Indexed location whose base local is in the topmost
\* open frame resolves to the base local's index, whatever index is applied to
\* it: that slot's end of life becomes FRAME_LIFETIME, the slot of the applied
\* index is left alone, and the event of a Write has the base local's index as
\* localIndex.
C26_IndexedOnTopResolvesToBase ==
    [][(/\ Handled
        /\ IsAccess(Last(raw'))
        /\ Last(raw').location.kind = "Indexed"
        /\ Last(raw').location.Indexed[1].Local[1] = TopFrame(frameIDs))
       => LET f == TopFrame(frameIDs)
              base == Last(raw').location.Indexed[1].Local[2]
              applied == Last(raw').location.Indexed[2]
          IN  /\ At(GetOrEmpty(localLifetimeEnds', f), base) = FRAME_LIFETIME
              /\ applied # base =>
                    At(GetOrEmpty(localLifetimeEnds', f), applied) = At(Row(f), applied)
              /\ IF Last(raw').kind = "Write"
                 THEN /\ Len(events') = Len(events) + 1
                      /\ Last(events').type = "Effect"
                      /\ Last(events').effect.location.localIndex = base
                 ELSE events' = events]_vars

\* A Write on index 1 of local 0 of the topmost frame was processed last, after
\* an Instruction: its event names local 0, slot 0 is live and slot 1 unset.
C26_Witness ==
    /\ Len(raw) >= 3
    /\ raw[Len(raw) - 1].tag = "Instruction"
    /\ Last(raw).tag = "Effect"
    /\ Last(raw).kind = "Write"
    /\ Last(raw).location = IndexedLoc(TopFrame(frameIDs), 0, 1)
    /\ Last(events).effect.location.localIndex = 0
    /\ At(Row(TopFrame(frameIDs)), 0) = FRAME_LIFETIME
    /\ At(Row(TopFrame(frameIDs)), 1) = Undefined

\* C27: a Push or Pop effect changes nothing: no event is emitted, the frame
\* stack and every row of both lifetime maps are as before.
C27_PushPopChangeNothing ==
    [][(/\ Handled
        /\ Last(raw').tag = "Effect"
        /\ Last(raw').kind \in {"Push", "Pop"})
       => Locals' = Locals]_vars

\* A Push and a Pop were processed inside an open frame, after an Instruction.
C27_Witness ==
    /\ Len(raw) = 4
    /\ raw[2].tag = "Instruction"
    /\ raw[3] = RawPush
    /\ raw[4] = RawPop
    /\ frameIDs # <<>>
    /\ Len(events) = 2
    /\ At(Row(TopFrame(frameIDs)), 0) \in Nat

\* The positions in trace of the OpenFrames whose frame is not closed yet: no
\* CloseFrame with the frame's id follows.
OpenPositions(trace) ==
    {n \in 1..Len(trace) :
        /\ trace[n].tag = "OpenFrame"
        /\ \A m \in (n + 1)..Len(trace) :
              ~(trace[m].tag = "CloseFrame" /\ trace[m].frame_id = trace[n].frame.frame_id)}

\* The ids of the frames at the positions in todo, in the order of the trace.
RECURSIVE IdsInOrder(_, _)
IdsInOrder(trace, todo) ==
    IF todo = {} THEN <<>>
    ELSE LET n == CHOOSE a \in todo : \A b \in todo : a <= b
         IN  <<trace[n].frame.frame_id>> \o IdsInOrder(trace, todo \ {n})

\* C28: at every point of the ingestion of a valid trace, frameIDs is the
\* sequence of the ids of the frames opened and not closed yet, outermost
\* first, without a repeated id; the current frame of an Instruction or Effect,
\* the last element of frameIDs, is the innermost open frame.
C28_CallStackIsOpenFrames ==
    WellFormed(raw) =>
        LET open == IdsInOrder(raw, OpenPositions(raw))
        IN  /\ frameIDs = open
            /\ \A a, b \in 1..Len(frameIDs) : frameIDs[a] = frameIDs[b] => a = b
            /\ open # <<>> => TopFrame(frameIDs) = open[Len(open)]

\* A well-formed trace in which frame 1 was opened, closed and opened again and
\* frame 2 was opened inside it.
C28_Witness ==
    /\ WellFormed(raw)
    /\ Len(raw) = 4
    /\ raw[2].tag = "CloseFrame"
    /\ frameIDs = <<1, 2>>

\* The events of trace after the first n.
Rest(trace, n) == SubSeq(trace, n + 1, Len(trace))

\* C29: when a frame id is used again by a frame opened after the first frame
\* of that id (and every other frame) was closed, the lifetime row of the id is
\* the one the reader computes from the second frame's events alone.
C29_ReusedIdStartsAfresh ==
    WellFormed(raw) =>
        \A n \in 1..(Len(raw) - 1) :
            (/\ OpenFramesAfter(raw, n) = <<>>
             /\ raw[n + 1].tag = "OpenFrame"
             /\ \E m \in 1..n : /\ raw[m].tag = "OpenFrame"
                                /\ raw[m].frame.frame_id = raw[n + 1].frame.frame_id
             /\ \A m \in (n + 2)..Len(raw) : raw[m].tag # "OpenFrame")
            => LET f == raw[n + 1].frame.frame_id
                   alone == RunLoop(Rest(raw, n))
               IN  Row(f) = GetOrEmpty(alone.localLifetimeEnds, f)

\* The step is an Instruction processed with frame f topmost whose pc exceeds
\* the largest pc seen for slot s of f (or none is recorded).
RaisingInstruction(f, s) ==
    /\ Handled
    /\ Last(raw').tag = "Instruction"
    /\ TopFrame(frameIDs) = f
    /\ (At(MaxRow(f), s) = Undefined \/ Last(raw').pc > At(MaxRow(f), s))

\* A slot that is FRAME_LIFETIME stays so in every step but a raising
\* Instruction, which sets it to its pc.
LiveUntilRaised ==
    \A f \in FrameIds : \A s \in Slots :
        At(Row(f), s) = FRAME_LIFETIME =>
            IF RaisingInstruction(f, s)
            THEN At(GetOrEmpty(localLifetimeEnds', f), s) = Last(raw').pc
            ELSE At(GetOrEmpty(localLifetimeEnds', f), s) = FRAME_LIFETIME

\* No Instruction after position a of the trace read was processed with frame
\* f topmost and a pc above the largest pc seen for slot s at that time.
NotRaisedSince(f, s, a) ==
    \A n \in (a + 1)..Len(raw) :
        ~(/\ raw[n].tag = "Instruction"
          /\ TopFrame(OpenFramesAfter(raw, n - 1)) = f
          /\ LET max == At(GetOrEmpty(RunLoopTo(raw, n - 1).locaLifetimeEndsMax, f), s)
             IN  max = Undefined \/ raw[n].pc > max)

\* C30: after a Read or Write has reset slot s of frame f to FRAME_LIFETIME, the
\* slot stays FRAME_LIFETIME until the first later Instruction processed with f
\* topmost whose pc is strictly greater than the largest pc seen for the slot,
\* and that Instruction sets it to its pc; without such an Instruction the
\* slot is FRAME_LIFETIME when the reader returns.
C30_LiveUntilHigherPc ==
    /\ [][LiveUntilRaised]_vars
    /\ [](status = "returned" =>
             \A f \in FrameIds : \A s \in Slots :
                 (/\ Accesses(raw, f, s) # {}
                  /\ NotRaisedSince(f, s, LiveSince(raw, f, s)))
                 => At(Row(f), s) = FRAME_LIFETIME)

\* After an Instruction a slot was read or written, the next Instruction had a
\* pc not above the largest seen and left it FRAME_LIFETIME, and the reader
\* returned.
C30_Witness ==
    /\ status = "returned"
    /\ Len(raw) = 4
    /\ raw[2].tag = "Instruction"
    /\ IsAccess(raw[3])
    /\ raw[4].tag = "Instruction"
    /\ raw[4].pc <= raw[2].pc
    /\ frameIDs = <<LocationFrame(raw[3].location)>>
    /\ At(Row(LocationFrame(raw[3].location)), SlotOf(raw[3].location)) = FRAME_LIFETIME
    /\ At(MaxRow(LocationFrame(raw[3].location)), SlotOf(raw[3].location)) = raw[2].pc

---------------------------------------------------------------------------
(* The two lifetime maps together.                                         *)

\* C31: in every state, a slot whose end of life is a concrete pc has that pc
\* recorded as the largest pc seen; and the largest pc seen of a slot, once
\* recorded, only ever changes to a strictly larger value.
C31_ConcreteEndEqualsMax ==
    /\ [](\A f \in RowKeys : \A s \in Slots :
              At(Row(f), s) \in Nat => At(MaxRow(f), s) = At(Row(f), s))
    /\ [][\A f \in RowKeys : \A s \in Slots :
              At(MaxRow(f), s) # Undefined =>
                  \/ At(GetOrEmpty(locaLifetimeEndsMax', f), s) = At(MaxRow(f), s)
                  \/ At(GetOrEmpty(locaLifetimeEndsMax', f), s) > At(MaxRow(f), s)]_vars

\* A slot holds a concrete end of life equal to the largest pc seen, which was
\* raised from a smaller one recorded before the slot was accessed.
C31_Witness ==
    /\ Len(raw) = 4
    /\ raw[2].tag = "Instruction"
    /\ IsAccess(raw[3])
    /\ raw[4].tag = "Instruction"
    /\ raw[2].pc < raw[4].pc
    /\ LET f == LocationFrame(raw[3].location)
           s == SlotOf(raw[3].location)
       IN  /\ At(GetOrEmpty(RunLoopTo(raw, 3).locaLifetimeEndsMax, f), s) = raw[2].pc
           /\ At(Row(f), s) = raw[4].pc
           /\ At(MaxRow(f), s) = raw[4].pc

\* Every Instruction of trace occurs inside an open frame.
InstructionsInsideFrames(trace) ==
    \A n \in 1..Len(trace) :
        trace[n].tag = "Instruction" => OpenFramesAfter(trace, n - 1) # <<>>

\* The frame ids of the OpenFrame events of trace.
OpenedIds(trace) ==
    {trace[n].frame.frame_id : n \in {m \in 1..Len(trace) : trace[m].tag = "OpenFrame"}}

\* C32: for a valid trace whose Reads and Writes name frames that are open and
\* whose Instructions occur inside an open frame, the keys of the returned
\* localLifetimeEnds are exactly the frame ids of the trace's OpenFrame events.
C32_KeysAreOpenedIds ==
    (/\ status = "returned"
     /\ Valid(raw)
     /\ InstructionsInsideFrames(raw))
    => DOMAIN localLifetimeEnds = OpenedIds(raw)

\* The reader has returned a valid trace with an Instruction and a Read or Write
\* inside a frame.
C32_Witness ==
    /\ status = "returned"
    /\ Valid(raw)
    /\ InstructionsInsideFrames(raw)
    /\ Len(raw) = 4
    /\ raw[2].tag = "Instruction"
    /\ IsAccess(raw[3])
    /\ DOMAIN localLifetimeEnds = {LocationFrame(raw[3].location)}

---------------------------------------------------------------------------
(* Termination.                                                            *)

\* The files of which the events handled so far are a proper beginning.
FilesAhead == {file \in Files : Len(file) > Len(raw) /\ SubSeq(file, 1, Len(raw)) = raw}

\* C33: the reader handles the events of a file one at a time, each the event
\* that follows the ones handled so far, none again and none out of order;
\* once started on the events it reaches the end of the file and returns, every
\* event of the file handled.
C33_EachEventOnceThenReturn ==
    /\ [][raw' # raw =>
             \E file \in FilesAhead : raw' = Append(raw, file[Len(raw) + 1])]_vars
    /\ [](status = "returned" => raw \in Files)
    /\ (status = "running") ~> (status = "returned")

\* The reader has returned the file with an event of no known tag: six events
\* handled, five canonical events.
C33_Witness ==
    /\ status = "returned"
    /\ raw = UnknownTagFile
    /\ Len(events) = 5

====
